---- MODULE Spec2Model ----
(***************************************************************************)
(* Model of the Billboard Hot-100 scraper, src/index.js lines 1-163 (the   *)
(* year-range program): download, parseHtml, ingest, store and main.       *)
(*                                                                         *)
(* Dates are day numbers counted from 0001-01-01 (= day 0, a Monday) in    *)
(* the proleptic Gregorian calendar. Every DateTime of the program is the  *)
(* instant 00:00Z of a day, kept as that day's number, and is read in the  *)
(* time zone of the process.                                               *)
(***************************************************************************)
EXTENDS Integers, Sequences, FiniteSets, TLC

\* ------------------------------------------------------------------------
\* Calendar: what the program asks of luxon's DateTime.
\* ------------------------------------------------------------------------

\* "Year outside available range of 1958-2022" (main).
FirstYear == 1958

LastYear == 2022

\* The start week of 1958, the year the chart began, and of every other year.
FirstChartWeek == 31

FirstWeek == 1

\* "-6" of the ISO week dates main builds: Saturday.
ChartWeekday == 6

\* The week main leaves out: '1961-W52-6'.
GapYear == 1961

GapWeek == 52

\* Day number of January 1st of year y.
Jan1(y) == 365 * (y - 1) + (y - 1) \div 4 - (y - 1) \div 100 + (y - 1) \div 400

\* ISO weekday, 1 = Monday .. 7 = Sunday.
Weekday(d) == (d % 7) + 1

CalendarYear(d) == CHOOSE y \in (FirstYear - 1)..(LastYear + 2) : Jan1(y) <= d /\ d < Jan1(y + 1)

\* The Thursday of the ISO week of day d decides the week's year.
ThursdayOf(d) == d - Weekday(d) + 4

\* date.weekYear
WeekYear(d) == CalendarYear(ThursdayOf(d))

\* date.weekNumber
WeekNumber(d) == (ThursdayOf(d) - Jan1(WeekYear(d))) \div 7 + 1

\* The time zone of the process, as the shift in days of its calendar day
\* from UTC's at 00:00Z. DateTime.fromISO is called without setZone, so the
\* DateTime it returns is in the zone of the process, and so is every
\* DateTime made from it by plus().
VARIABLE zone

\* West of UTC it is still the day before at 00:00Z; at UTC and east of it
\* it is the same day.
Zones == {-1, 0}

\* The calendar day that a DateTime at 00:00Z of day d shows in the zone of
\* the process.
LocalDay(d) == d + zone

\* date.weekYear
DateWeekYear(dt) == WeekYear(LocalDay(dt))

\* date.weekNumber
DateWeekNumber(dt) == WeekNumber(LocalDay(dt))

\* date.toISOWeekDate(), as the triple behind 'kkkk-Www-c'
ToISOWeekDate(dt) == <<DateWeekYear(dt), DateWeekNumber(dt), Weekday(LocalDay(dt))>>

\* DateTime.fromISO(`${wy}-W${wn}-${wd}T00:00Z`): week 1 is the week of January 4th.
FromISOWeek(wy, wn, wd) ==
  LET jan4 == Jan1(wy) + 3
      monday1 == jan4 - Weekday(jan4) + 1
  IN monday1 + 7 * (wn - 1) + (wd - 1)

\* date.plus({ weeks: 1 })
PlusOneWeek(d) == d + 7

\* main: dateFrom of a year.
DateFrom(y) ==
  IF y = FirstYear
    THEN FromISOWeek(y, FirstChartWeek, ChartWeekday)
    ELSE FromISOWeek(y, FirstWeek, ChartWeekday)

\* main: dateTo of a year, the exclusive end of the week loop.
DateTo(y) == FromISOWeek(y + 1, FirstWeek, ChartWeekday)

\* main: the loop test "+date < +dateTo".
LoopContinues(dt, dateTo) == dt < dateTo

\* main: "if (date.toISOWeekDate() === '1961-W52-6') continue".
IsGapWeek(dt) == ToISOWeekDate(dt) = <<GapYear, GapWeek, ChartWeekday>>

\* ------------------------------------------------------------------------
\* Bounds of the model.
\* ------------------------------------------------------------------------

\* The week loop of a year is followed over its last MaxWeeks weeks.
MaxWeeks == 2

\* Program runs (invocations of main) in one behaviour.
MaxRuns == 2

\* Departures from the normal course that one behaviour may hold: a response
\* other than the well-formed page, a cache or record file read before its
\* stream has flushed, streams flushing out of order, a refused INSERT, a
\* record file the program did not write, a page cache found at the start,
\* a command line other than the two years of the normal course.
MaxFaults == 1

\* The years a run may be asked for.
RunYears == {GapYear, GapYear + 1}

\* A command-line argument is kept as the decimal digits it starts with and
\* the text that follows them.
RECURSIVE Digits(_)
Digits(n) == IF n < 10 THEN <<n>> ELSE Append(Digits(n \div 10), n % 10)

RECURSIVE DecimalValue(_)
DecimalValue(ds) ==
  IF ds = <<>> THEN 0 ELSE 10 * DecimalValue(SubSeq(ds, 1, Len(ds) - 1)) + ds[Len(ds)]

\* The argument that is the digits of n and nothing else.
ArgOf(n) == [digits |-> Digits(n), rest |-> ""]

NaN == <<"nan", 0>>

\* parseInt(arg): the number of the leading digits, whatever follows them;
\* NaN when the argument does not start with a digit.
ParseInt(arg) == IF arg.digits = <<>> THEN NaN ELSE <<"num", DecimalValue(arg.digits)>>

\* isNaN(v)
IsNaN(v) == v = NaN

\* The command line of the normal course.
NormalArgs == <<ArgOf(GapYear), ArgOf(GapYear + 1)>>

\* The command lines a run may be given: process.argv from index 2 on.
RunArgs ==
  {NormalArgs,
   <<>>,
   <<ArgOf(GapYear)>>,
   <<[digits |-> <<>>, rest |-> "abc"], ArgOf(GapYear + 1)>>,
   <<ArgOf(GapYear), [digits |-> <<>>, rest |-> ""]>>,
   <<[digits |-> Digits(GapYear), rest |-> "abc"], ArgOf(GapYear + 1)>>,
   <<ArgOf(FirstYear - 1), ArgOf(GapYear + 1)>>,
   <<ArgOf(GapYear), ArgOf(LastYear + 1)>>,
   <<ArgOf(GapYear + 1), ArgOf(GapYear)>>}

\* main: yearStart and yearEnd of a command line of two arguments.
YearStart(args) == ParseInt(args[1])

YearEnd(args) == ParseInt(args[2])

\* main: the three checks a command line passes before the year loop.
Validated(args) ==
  /\ ~(Len(args) + 2 < 4)
  /\ ~(IsNaN(YearStart(args)) \/ IsNaN(YearEnd(args)))
  /\ ~(YearStart(args)[2] < FirstYear \/ YearEnd(args)[2] > LastYear)

Max(a, b) == IF a >= b THEN a ELSE b

\* Where the model enters the week loop of a year: dateFrom, moved up to
\* MaxWeeks weeks before dateTo.
WindowFrom(y) == Max(DateFrom(y), DateTo(y) - 7 * MaxWeeks)

WindowDates(y) == {d \in WindowFrom(y)..(DateTo(y) - 1) : (d - WindowFrom(y)) % 7 = 0}

AllDates == UNION {WindowDates(y) : y \in RunYears}

\* ------------------------------------------------------------------------
\* Values: JavaScript values, DOM rows, JSON text.
\* ------------------------------------------------------------------------

Undefined == <<"undefined", 0>>

Null == <<"null", 0>>

Num(n) == <<"num", n>>

Str(s) == <<"str", s>>

\* a === b
StrictEquals(a, b) == a = b

\* An element querySelector did not find.
NoElement == "no element"

\* parseHtml: rows.length !== 100
ExpectedRows == 100

GoodRow == [h3 |-> "Tossin' And Turnin'", span |-> "Bobby Lewis"]

NoTitleRow == [h3 |-> NoElement, span |-> "Bobby Lewis"]

NoArtistRow == [h3 |-> "Tossin' And Turnin'", span |-> NoElement]

\* The rows div.o-chart-results-list-row-container of the pages the site may serve.
GoodPage == [i \in 1..ExpectedRows |-> GoodRow]

ShortPage == [i \in 1..(ExpectedRows - 1) |-> GoodRow]

LongPage == [i \in 1..(ExpectedRows + 1) |-> GoodRow]

DriftPage == [i \in 1..ExpectedRows |-> IF i = 2 THEN NoTitleRow ELSE IF i = 3 THEN NoArtistRow ELSE GoodRow]

\* The pages are kept by name: a cache file holds the body of the response
\* it was written from, and RowsOf gives the rows JSDOM finds in that body.
PageNames == {"good", "short", "long", "drift"}

RowsOf(page) ==
  CASE page = "good" -> GoodPage
    [] page = "short" -> ShortPage
    [] page = "long" -> LongPage
    [] page = "drift" -> DriftPage
    [] OTHER -> <<>>

HtmlContentType == "text/html; charset=UTF-8"

\* What request() may resolve to: { statusCode, headers['content-type'], body }.
Responses ==
  [statusCode : {200}, contentType : {HtmlContentType}, body : PageNames]
  \cup {[statusCode |-> 404, contentType |-> HtmlContentType, body |-> "none"],
        [statusCode |-> 200, contentType |-> "text/html", body |-> "good"]}

AcceptedByStatusAlone(resp) == resp.statusCode = 200

\* download: the two checks a response must pass before the body is written.
Accepted(resp) == resp.statusCode = 200 /\ resp.contentType = HtmlContentType

\* row.querySelector(sel)?.firstChild.nodeValue.trim(): the optional chain
\* gives undefined when the element is not found.
TextOf(el) == IF el = NoElement THEN Undefined ELSE Str(el)

\* parseHtml: "if (title === null || artist === null)" for one row.
RowRejected(row) ==
  StrictEquals(TextOf(row.h3), Null) \/ StrictEquals(TextOf(row.span), Null)

\* parseHtml: the entry yielded for the i-th row.
EntryOf(rows, i) == [position |-> Num(i), artist |-> TextOf(rows[i].span), title |-> TextOf(rows[i].h3)]

CountRejectedIfShort(rows) == Len(rows) < ExpectedRows

\* parseHtml: "if (rows.length !== 100)".
CountRejected(rows) == Len(rows) # ExpectedRows

\* parseHtml over the rows JSDOM found: the entries yielded, in order, and
\* whether the generator ended by throwing.
ParseHtml(rows) ==
  IF CountRejected(rows)
    THEN [entries |-> <<>>, raised |-> FALSE]
    ELSE LET bad == {i \in 1..Len(rows) : RowRejected(rows[i])}
             stop == IF bad = {} THEN Len(rows) + 1
                     ELSE CHOOSE i \in bad : \A j \in bad : i <= j
         IN [entries |-> [i \in 1..(stop - 1) |-> EntryOf(rows, i)],
             raised |-> bad # {}]

\* JSON.stringify of one array element: undefined and null both print as null.
JsonOf(v) ==
  IF v[1] = "num" THEN <<"jnum", v[2]>>
  ELSE IF v[1] = "str" THEN <<"jstr", v[2]>>
  ELSE <<"jnull", 0>>

\* JSON.stringify(array): the text of one line of the record file.
JsonStringify(arr) == [i \in 1..Len(arr) |-> JsonOf(arr[i])]

\* A line that is not JSON (a torn or hand-edited line).
TornLine == <<<<"jtorn", 0>>>>

IsJson(ln) == \A i \in 1..Len(ln) : ln[i][1] \in {"jnum", "jstr", "jnull"}

ValueOf(j) ==
  IF j[1] = "jnum" THEN Num(j[2])
  ELSE IF j[1] = "jstr" THEN Str(j[2])
  ELSE Null

\* JSON.parse(line), for a line that is JSON.
JsonParse(ln) == [i \in 1..Len(ln) |-> ValueOf(ln[i])]

\* ingest: the array it serialises for one entry of the page of date.
TupleOf(dt, e) == <<Num(DateWeekYear(dt)), Num(DateWeekNumber(dt)), e.position, e.artist, e.title>>

\* The lines written for entries under the week-year and week number of a date.
LinesFor(weekYear, weekNumber, entries) ==
  [i \in 1..Len(entries) |->
     JsonStringify(<<weekYear, weekNumber, entries[i].position, entries[i].artist, entries[i].title>>)]

\* ingest: the lines written for the entries parseHtml yielded.
LinesOf(dt, entries) ==
  LinesFor(Num(DateWeekYear(dt)), Num(DateWeekNumber(dt)), entries)

\* The lines of a record file the program did not write: the second is not
\* JSON.
HandMadeLines ==
  <<JsonStringify(<<Num(GapYear), Num(1), Num(1), Str("Bobby Lewis"), Str("Tossin' And Turnin'")>>),
    TornLine,
    JsonStringify(<<Num(GapYear), Num(1), Num(3), Str("Bobby Lewis"), Str("Tossin' And Turnin'")>>)>>

\* A record file is kept as the writes that made it, in order, one for each
\* call of ingest whose stream has reached the disk. What a call of ingest
\* writes is fixed by the week-year and week number of its date, the page
\* cached for the date and the number of rows JSDOM found in it: a write is
\* kept as these four, with the count of its lines. The page "hand" names
\* HandMadeLines.
HandMadeWrite == [weekYear |-> 0, weekNumber |-> 0, page |-> "hand", seen |-> 0, count |-> Len(HandMadeLines)]

\* ingest: what it writes to its stream for the rows parseHtml was given.
WriteOf(dt, page, rows) ==
  [weekYear |-> DateWeekYear(dt), weekNumber |-> DateWeekNumber(dt), page |-> page, seen |-> Len(rows),
   count |-> Len(LinesOf(dt, ParseHtml(rows).entries))]

\* How many rows of a page of n rows a reader may find on disk while the
\* page's stream is writing: none, all but the last, all.
ReadPoints(n) == {0, n - 1, n}

\* The weeks of the dates the model follows, in every zone.
WrittenWeeks == {<<WeekYear(d + z), WeekNumber(d + z)>> : <<d, z>> \in AllDates \X Zones}

\* The writes of a page that can be made: <<week-year, week number, page, rows seen>>.
WriteKeys ==
  {key \in WrittenWeeks \X PageNames \X (0..(ExpectedRows + 1)) :
     key[3] \in ReadPoints(Len(RowsOf(key[2])))}

\* The lines of the write of a key.
LinesAt(key) ==
  LET lines == LinesFor(Num(key[1][1]), Num(key[1][2]), ParseHtml(SubSeq(RowsOf(key[2]), 1, key[3])).entries)
  IN SubSeq(lines, 1, Len(lines))

\* The lines of every write, worked out once.
RECURSIVE LinesTable(_)
LinesTable(keys) ==
  IF keys = {}
    THEN <<>>
    ELSE LET key == CHOOSE k \in keys : TRUE
         IN (key :> LinesAt(key)) @@ LinesTable(keys \ {key})

WrittenLines == LinesTable(WriteKeys)

\* The lines of one write.
LinesOfWrite(w) ==
  IF w.count = 0 THEN <<>>
  ELSE IF w.page = "hand" THEN HandMadeLines
  ELSE WrittenLines[<<<<w.weekYear, w.weekNumber>>, w.page, w.seen>>]

\* The lines of a record file, from its writes.
RECURSIVE Lines(_)
Lines(writes) ==
  IF writes = <<>> THEN <<>> ELSE LinesOfWrite(Head(writes)) \o Lines(Tail(writes))

\* The number of lines of a record file.
RECURSIVE NumLines(_)
NumLines(writes) ==
  IF writes = <<>> THEN 0 ELSE Head(writes).count + NumLines(Tail(writes))

CorrectAnyTitle(vals) ==
  IF /\ StrictEquals(vals[1], Num(1984))
     /\ StrictEquals(vals[2], Num(7))
    THEN [vals EXCEPT ![3] = Str("87")]
    ELSE vals

\* store: the one hard-coded correction, applied to the parsed values.
Correct(vals) ==
  IF /\ StrictEquals(vals[1], Num(1984))
     /\ StrictEquals(vals[2], Num(7))
     /\ StrictEquals(vals[5], Str("Remember The Nights"))
    THEN [vals EXCEPT ![3] = Str("87")]
    ELSE vals

\* store: the values of the INSERT issued for one line.
InsertValues(ln) == Correct(JsonParse(ln))

\* pgClient.query(text, values): every parameter goes to the server as
\* text, a number as its decimal digits, a string as it is; null and
\* undefined go as NULL.
PgParam(v) ==
  IF v[1] = "num" THEN <<"text", ToString(v[2])>>
  ELSE IF v[1] = "str" THEN <<"text", v[2]>>
  ELSE <<"NULL", "">>

\* The values store inserts for lines, one row for each.
RowsOfLines(lines) ==
  LET rows == [k \in 1..Len(lines) |-> InsertValues(lines[k])]
  IN SubSeq(rows, 1, Len(rows))

\* The values store inserts for the lines of every write, worked out once.
RECURSIVE RowsTable(_)
RowsTable(keys) ==
  IF keys = {}
    THEN <<>>
    ELSE LET key == CHOOSE k \in keys : TRUE
         IN (key :> RowsOfLines(WrittenLines[key])) @@ RowsTable(keys \ {key})

InsertedRows == RowsTable(WriteKeys)

HandMadeRows == RowsOfLines(HandMadeLines)

\* The values store inserts for the lines of one write.
RowsOfWrite(w) ==
  IF w.count = 0 THEN <<>>
  ELSE IF w.page = "hand" THEN HandMadeRows
  ELSE InsertedRows[<<<<w.weekYear, w.weekNumber>>, w.page, w.seen>>]

RECURSIVE RowsOfWrites(_)
RowsOfWrites(writes) ==
  IF writes = <<>> THEN <<>> ELSE RowsOfWrite(Head(writes)) \o RowsOfWrites(Tail(writes))

\* The database is kept as its committed transactions, in order: each is
\* the writes of the record file store read and the number of its lines,
\* from the first, whose INSERT the transaction holds.
RowsOfTx(tx) == SubSeq(RowsOfWrites(tx.writes), 1, tx.count)

\* The committed rows of raw_chart, in insertion order.
RECURSIVE DbRows(_)
DbRows(committed) ==
  IF committed = <<>> THEN <<>> ELSE RowsOfTx(Head(committed)) \o DbRows(Tail(committed))

\* The number of committed rows.
RECURSIVE NumRows(_)
NumRows(committed) ==
  IF committed = <<>> THEN 0 ELSE Head(committed).count + NumRows(Tail(committed))

DbCommitAllButLast(committed, tx) ==
  IF tx.count <= 1 THEN committed ELSE Append(committed, [tx EXCEPT !.count = @ - 1])

\* COMMIT makes the rows inserted in the transaction visible.
DbCommit(committed, tx) == IF tx.count = 0 THEN committed ELSE Append(committed, tx)

DbRollbackKeepsRows(committed, tx) == IF tx.count = 0 THEN committed ELSE Append(committed, tx)

\* ROLLBACK drops the rows inserted in the transaction.
DbRollback(committed, tx) == committed

\* ------------------------------------------------------------------------
\* State.
\* ------------------------------------------------------------------------

VARIABLES
  pc,         \* where main is: "idle", "year", "week", "parse", "store", "done", "failed"
  run,        \* runs of the program started so far
  argv,       \* the command line of the current run (process.argv from index 2)
  year,       \* main: the year of the year loop
  date,       \* main: the date of the week loop
  html,       \* html/<date>.html: whether it exists, its page, whether its stream has flushed
  jsonl,      \* jsonl/<year>.jsonl on disk: whether it exists, the writes that made it
  streams,    \* write streams on record files whose data is not on disk yet
  db,         \* raw_chart: the committed transactions, in order
  entered,    \* what main found when it reached the current year
  passed,     \* the dates main has passed to ingest in the current year
  lastFetch,  \* the last call of download
  lastParse,  \* the last call of parseHtml, and what ingest wrote for it
  lastStore,  \* the last call of store
  failure,    \* the error main ended with, "none" if none
  faults,     \* departures from the normal course so far
  line,       \* store: the line readline handed over
  values      \* store: the values of the INSERT issued for it

vars == <<pc, run, argv, year, date, html, jsonl, streams, db, entered, passed, lastFetch, lastParse, lastStore, failure, faults, zone, line, values>>

NoFile == [exists |-> FALSE, writes |-> <<>>]

NoPage == [exists |-> FALSE, page |-> "none", flushed |-> TRUE]

NoEntry == [year |-> 0, existed |-> FALSE, snapshot |-> NoFile, fetches |-> 0, parses |-> 0]

NoFetch == [date |-> 0, statusCode |-> 0, contentType |-> "", returned |-> Undefined]

NoParse == [date |-> 0, found |-> FALSE, seen |-> 0, yielded |-> 0, wrote |-> 0, raised |-> FALSE, pending |-> FALSE]

NoStore == [year |-> 0, outcome |-> "none", lines |-> 0, inserted |-> 0, before |-> 0, commits |-> 0, rollbacks |-> 0,
            pending |-> 0, connects |-> 0, ends |-> 0]

\* The response of the normal course: the well-formed page of 100 rows.
NormalResponse == [statusCode |-> 200, contentType |-> HtmlContentType, body |-> "good"]

MayFault == faults < MaxFaults

\* A record file found on disk that the program did not write.
HandMadeFile == [exists |-> TRUE, writes |-> <<HandMadeWrite>>]

\* A page cache left by an earlier session whose record files were removed:
\* the page of the first date followed in the year after the gap year.
CachedPages ==
  [d \in AllDates |->
     IF d = WindowFrom(GapYear + 1) THEN [exists |-> TRUE, page |-> "good", flushed |-> TRUE] ELSE NoPage]

Init ==
  /\ zone \in Zones
  /\ pc = "idle"
  /\ run = 0
  /\ argv = <<>>
  /\ year = 0
  /\ date = 0
  /\ \/ /\ html = [d \in AllDates |-> NoPage]
        /\ jsonl = [y \in RunYears |-> NoFile]
        /\ faults = 0
     \/ /\ html = [d \in AllDates |-> NoPage]
        /\ jsonl = [y \in RunYears |-> IF y = GapYear THEN HandMadeFile ELSE NoFile]
        /\ faults = 1
     \/ /\ html = CachedPages
        /\ jsonl = [y \in RunYears |-> NoFile]
        /\ faults = 1
  /\ streams = <<>>
  /\ db = <<>>
  /\ entered = NoEntry
  /\ passed = <<>>
  /\ lastFetch = NoFetch
  /\ lastParse = NoParse
  /\ lastStore = NoStore
  /\ failure = "none"
  /\ line = <<>>
  /\ values = <<>>

\* ------------------------------------------------------------------------
\* main.
\* ------------------------------------------------------------------------

\* A run of the program: main on a command line, up to the head of the
\* year loop. Every write stream of an earlier run has flushed before its
\* process ended.
Main(args) ==
  /\ pc \in {"idle", "done", "failed"}
  /\ run < MaxRuns
  /\ streams = <<>>
  /\ \A d \in AllDates : html[d].flushed
  /\ args = NormalArgs \/ MayFault
  /\ faults' = IF args = NormalArgs THEN faults ELSE faults + 1
  /\ run' = run + 1
  /\ argv' = args
  /\ IF Validated(args)
       THEN /\ year' = YearStart(args)[2]
            /\ pc' = IF YearStart(args)[2] <= YearEnd(args)[2] THEN "year" ELSE "done"
       ELSE /\ year' = 0
            /\ pc' = "done"
  /\ date' = 0
  /\ entered' = NoEntry
  /\ passed' = <<>>
  /\ lastFetch' = NoFetch
  /\ lastParse' = NoParse
  /\ lastStore' = NoStore
  /\ failure' = "none"
  /\ UNCHANGED <<zone, line, values, html, jsonl, streams, db>>

IngestsAlways(file) == TRUE

\* main: "if (!fs.existsSync(jsonlFileName))", the test that guards the week loop.
Ingests(file) == ~file.exists

\* main: the head of the year loop, up to the test of the record file.
YearBegin ==
  /\ pc = "year"
  /\ entered' = [year |-> year, existed |-> jsonl[year].exists, snapshot |-> jsonl[year],
                 fetches |-> 0, parses |-> 0]
  /\ passed' = <<>>
  /\ IF Ingests(jsonl[year])
       THEN pc' = "week" /\ date' = WindowFrom(year)
       ELSE pc' = "store" /\ date' = date
  /\ UNCHANGED <<zone, line, values, run, argv, year, html, jsonl, streams, db, lastFetch, lastParse, lastStore, failure, faults>>

\* main: the week loop passes over the gap week.
SkipGapWeek ==
  /\ pc = "week"
  /\ LoopContinues(date, DateTo(year))
  /\ IsGapWeek(date)
  /\ date' = PlusOneWeek(date)
  /\ UNCHANGED <<zone, line, values, pc, run, argv, year, html, jsonl, streams, db, entered, lastFetch, lastParse, lastStore, failure, faults, passed>>

\* main: the week loop ends.
WeeksDone ==
  /\ pc = "week"
  /\ ~LoopContinues(date, DateTo(year))
  /\ pc' = "store"
  /\ UNCHANGED <<zone, line, values, run, argv, year, date, html, jsonl, streams, db, entered, lastFetch, lastParse, lastStore, failure, faults, passed>>

\* ------------------------------------------------------------------------
\* ingest, download, parseHtml.
\* ------------------------------------------------------------------------

\* download(date, htmlFileName) for the response resp: what becomes of the
\* cache file.
Download(file, resp) ==
  IF Accepted(resp)
    THEN [file |-> [exists |-> TRUE, page |-> resp.body, flushed |-> FALSE], returned |-> Undefined]
    ELSE [file |-> file, returned |-> Null]

DownloadsAlways(file) == TRUE

\* ingest: "if (!fs.existsSync(htmlFileName))", the test that guards download.
Downloads(file) == ~file.exists

\* ingest, first half: main calls ingest(date), which downloads the page
\* unless its cache file exists.
IngestFetch ==
  /\ pc = "week"
  /\ LoopContinues(date, DateTo(year))
  /\ ~IsGapWeek(date)
  /\ pc' = "parse"
  /\ IF ~Downloads(html[date])
       THEN UNCHANGED <<html, lastFetch, entered, faults>>
       ELSE \E resp \in Responses :
              /\ resp = NormalResponse \/ MayFault
              /\ faults' = IF resp = NormalResponse THEN faults ELSE faults + 1
              /\ html' = [html EXCEPT ![date] = Download(html[date], resp).file]
              /\ lastFetch' = [date |-> date, statusCode |-> resp.statusCode,
                               contentType |-> resp.contentType,
                               returned |-> Download(html[date], resp).returned]
              /\ entered' = [entered EXCEPT !.fetches = @ + 1]
  /\ passed' = Append(passed, date)
  /\ UNCHANGED <<zone, line, values, run, argv, year, date, jsonl, streams, db, lastParse, lastStore, failure>>

\* The cache file's stream writes its data and closes.
HtmlFlush(d) ==
  /\ (pc = "parse" /\ d = date) \/ pc \in {"done", "failed"}
  /\ html[d].exists
  /\ ~html[d].flushed
  /\ html' = [html EXCEPT ![d].flushed = TRUE]
  /\ UNCHANGED <<zone, line, values, pc, run, argv, year, date, jsonl, streams, db, entered, lastFetch, lastParse, lastStore, failure, faults, passed>>

\* The rows JSDOM.fromFile may find in a cache file: all of them once the
\* stream has flushed, before that what has reached the disk.
RowsOnDisk(file) ==
  LET rows == RowsOf(file.page)
  IN IF file.flushed
       THEN {rows}
       ELSE {SubSeq(rows, 1, k) : k \in ReadPoints(Len(rows))}

\* ingest, second half: open the record file for appending, parse the
\* cache file, write one line per entry, end the stream.
IngestParse ==
  /\ pc = "parse"
  /\ entered' = [entered EXCEPT !.parses = @ + 1]
  /\ IF ~html[date].exists
       THEN \* JSDOM.fromFile rejects: no such file
            /\ streams' = Append(streams, [year |-> year, write |-> WriteOf(date, html[date].page, <<>>)])
            /\ lastParse' = [NoParse EXCEPT !.date = date, !.raised = TRUE]
            /\ pc' = "failed"
            /\ failure' = "ENOENT"
            /\ date' = date
            /\ faults' = faults
       ELSE \E rows \in RowsOnDisk(html[date]) :
              LET parsed == ParseHtml(rows)
                  write == WriteOf(date, html[date].page, rows)
              IN /\ html[date].flushed \/ MayFault
                 /\ faults' = IF html[date].flushed THEN faults ELSE faults + 1
                 /\ streams' = Append(streams, [year |-> year, write |-> write])
                 /\ lastParse' = [date |-> date, found |-> TRUE, seen |-> Len(rows),
                                  yielded |-> Len(parsed.entries),
                                  wrote |-> write.count,
                                  raised |-> parsed.raised, pending |-> ~html[date].flushed]
                 /\ IF parsed.raised
                      THEN pc' = "failed" /\ failure' = "Unexpected HTML!" /\ date' = date
                      ELSE pc' = "week" /\ failure' = failure /\ date' = PlusOneWeek(date)
  /\ UNCHANGED <<zone, line, values, run, argv, year, html, jsonl, db, lastFetch, lastStore, passed>>

\* A record-file stream opens its file (creating it) and appends its lines;
\* streams flush in the order of their creation in the normal course. The
\* program looks at a year's record file in main's existsSync, before the
\* year's first stream is made, and in store: a flush during the week loop
\* is followed as a flush when the loop has ended.
JsonlFlush(i) ==
  /\ pc \in {"store", "done", "failed"}
  /\ i \in DOMAIN streams
  /\ i = 1 \/ MayFault
  /\ faults' = IF i = 1 THEN faults ELSE faults + 1
  /\ LET s == streams[i]
     IN jsonl' = [jsonl EXCEPT ![s.year] =
                    [exists |-> TRUE,
                     writes |-> IF s.write.count = 0 THEN jsonl[s.year].writes
                                ELSE Append(jsonl[s.year].writes, s.write)]]
  /\ streams' = [j \in 1..(Len(streams) - 1) |-> IF j < i THEN streams[j] ELSE streams[j + 1]]
  /\ UNCHANGED <<zone, line, values, pc, run, argv, year, date, html, db, entered, lastFetch, lastParse, lastStore, failure, passed>>

\* ------------------------------------------------------------------------
\* store.
\* ------------------------------------------------------------------------

Min(a, b) == IF a <= b THEN a ELSE b

\* The lines of one write that JSON.parse throws on. A line ingest wrote is
\* the text JSON.stringify returned.
UnparsableIn(w) ==
  IF w.page = "hand"
    THEN {k \in 1..Len(HandMadeLines) : ~IsJson(HandMadeLines[k])}
    ELSE {}

\* The first line of a record file JSON.parse throws on, the number of its
\* lines + 1 if none.
RECURSIVE FirstUnparsable(_)
FirstUnparsable(writes) ==
  IF writes = <<>>
    THEN 1
    ELSE LET bad == UnparsableIn(Head(writes))
         IN IF bad = {}
              THEN Head(writes).count + FirstUnparsable(Tail(writes))
              ELSE CHOOSE k \in bad : \A j \in bad : k <= j

\* main: after store returned, the year loop goes on.
NextYearPc == IF year + 1 <= YearEnd(argv)[2] THEN "year" ELSE "done"

\* The lines at which the model lets the database refuse an INSERT: the
\* first, the second, one in the middle, the last; Len + 1 stands for none.
RefusalPoints(n) == {k \in {1, 2, n \div 2, n, n + 1} : k >= 1}

\* The streams on the record file of year y that have not flushed.
Pending(y) == {i \in DOMAIN streams : streams[i].year = y}

\* store(jsonlFileName), called by main, on the lines the file holds on
\* disk; insertFails is the line whose INSERT the database refuses.
Store ==
  /\ pc = "store"
  /\ Pending(year) = {} \/ MayFault
  /\ IF ~jsonl[year].exists
       THEN /\ lastStore' = [NoStore EXCEPT !.year = year, !.outcome = "no file",
                                            !.before = NumRows(db),
                                            !.pending = Cardinality(Pending(year))]
            /\ db' = db
            /\ pc' = NextYearPc
            /\ year' = year + 1
            /\ failure' = failure
            /\ faults' = IF Pending(year) = {} THEN faults ELSE faults + 1
       ELSE \E insertFails \in RefusalPoints(NumLines(jsonl[year].writes)) :
              LET writes == jsonl[year].writes
                  n == NumLines(writes)
                  stop == Min(insertFails, FirstUnparsable(writes))
                  tx == [writes |-> writes, count |-> stop - 1]
                  \* a call that departs from the normal course counts once
                  used == IF Pending(year) # {} \/ insertFails <= n THEN 1 ELSE 0
              IN /\ faults + used <= MaxFaults \/ used = 0
                 /\ faults' = faults + used
                 /\ IF stop > n
                      THEN /\ db' = DbCommit(db, tx)
                           /\ lastStore' = [year |-> year, outcome |-> "returned", lines |-> n,
                                            inserted |-> tx.count, before |-> NumRows(db),
                                            commits |-> 1, rollbacks |-> 0,
                                            pending |-> Cardinality(Pending(year)),
                                            \* pgClient.connect() ... pgClient.end()
                                            connects |-> 1, ends |-> 1]
                           /\ pc' = NextYearPc
                           /\ year' = year + 1
                           /\ failure' = failure
                      ELSE /\ db' = DbRollback(db, tx)
                           /\ lastStore' = [year |-> year, outcome |-> "raised", lines |-> n,
                                            inserted |-> tx.count, before |-> NumRows(db),
                                            commits |-> 0, rollbacks |-> 1,
                                            pending |-> Cardinality(Pending(year)),
                                            \* "throw err" leaves store before pgClient.end()
                                            connects |-> 1, ends |-> 0]
                           /\ pc' = "failed"
                           /\ year' = year
                           /\ failure' = IF stop = FirstUnparsable(writes) THEN "SyntaxError" ELSE "insert refused"
  /\ UNCHANGED <<zone, line, values, run, argv, date, html, jsonl, streams, entered, lastFetch, lastParse, passed>>

Next ==
  \/ \E args \in RunArgs : Main(args)
  \/ YearBegin
  \/ SkipGapWeek
  \/ WeeksDone
  \/ IngestFetch
  \/ \E d \in AllDates : HtmlFlush(d)
  \/ IngestParse
  \/ \E i \in DOMAIN streams : JsonlFlush(i)
  \/ Store

Spec == Init /\ [][Next]_vars

\* ------------------------------------------------------------------------
\* The week loop alone, over every year main accepts: ingest is taken as
\* returning, whatever it does.
\* ------------------------------------------------------------------------

InitWeeks ==
  /\ zone \in Zones
  /\ pc = "week"
  /\ run = 1
  /\ year \in FirstYear..LastYear
  /\ argv = <<ArgOf(year), ArgOf(year)>>
  /\ date = DateFrom(year)
  /\ html = [d \in AllDates |-> NoPage]
  /\ jsonl = [y \in RunYears |-> NoFile]
  /\ streams = <<>>
  /\ db = <<>>
  /\ entered = [NoEntry EXCEPT !.year = year]
  /\ passed = <<>>
  /\ lastFetch = NoFetch
  /\ lastParse = NoParse
  /\ lastStore = NoStore
  /\ failure = "none"
  /\ faults = 0
  /\ line = <<>>
  /\ values = <<>>

\* main: "await ingest(date, jsonlFileName)" and the step of the loop.
IngestCall ==
  /\ pc = "week"
  /\ LoopContinues(date, DateTo(year))
  /\ ~IsGapWeek(date)
  /\ passed' = Append(passed, date)
  /\ date' = PlusOneWeek(date)
  /\ UNCHANGED <<zone, line, values, pc, run, argv, year, html, jsonl, streams, db, entered, lastFetch, lastParse, lastStore, failure, faults>>

NextWeeks ==
  \/ IngestCall
  \/ SkipGapWeek
  \/ WeeksDone

SpecWeeks == InitWeeks /\ [][NextWeeks]_vars

\* ------------------------------------------------------------------------
\* The body of store's loop alone, over lines a record file may hold.
\* ------------------------------------------------------------------------

CorrectedYear == 1984

CorrectedWeek == 7

CorrectedTitle == "Remember The Nights"

CorrectedPosition == 87

\* The lines the loop is followed on: the year, week and title of the
\* correction and near misses of each, with positions of every kind.
RecordLines ==
  {JsonStringify(<<Num(y), Num(w), p, a, t>>) :
     y \in {CorrectedYear - 1, CorrectedYear},
     w \in {CorrectedWeek, CorrectedWeek + 1},
     p \in {Num(1), Num(CorrectedPosition), Str("87"), Undefined},
     a \in {Str("Survivor"), Undefined},
     t \in {Str(CorrectedTitle), Str("Remember the Nights"), Undefined}}

InitInsert ==
  /\ zone = 0
  /\ pc = "line"
  /\ run = 1
  /\ argv = <<ArgOf(CorrectedYear), ArgOf(CorrectedYear)>>
  /\ year = CorrectedYear
  /\ date = 0
  /\ html = [d \in AllDates |-> NoPage]
  /\ jsonl = [y \in RunYears |-> NoFile]
  /\ streams = <<>>
  /\ db = <<>>
  /\ entered = NoEntry
  /\ passed = <<>>
  /\ lastFetch = NoFetch
  /\ lastParse = NoParse
  /\ lastStore = NoStore
  /\ failure = "none"
  /\ faults = 0
  /\ line \in RecordLines
  /\ values = <<>>

\* store: one turn of "for await (const line of rl)", up to the INSERT.
InsertLine ==
  /\ pc = "line"
  /\ values' = InsertValues(line)
  /\ pc' = "inserted"
  /\ UNCHANGED <<zone, run, argv, year, date, html, jsonl, streams, db, entered, passed, lastFetch, lastParse,
                 lastStore, failure, faults, line>>

NextInsert == InsertLine

SpecInsert == InitInsert /\ [][NextInsert]_vars

\* The record of a line is the one the correction is for.
IsCorrected(ln) ==
  /\ ln[1] = <<"jnum", CorrectedYear>>
  /\ ln[2] = <<"jnum", CorrectedWeek>>
  /\ ln[5] = <<"jstr", CorrectedTitle>>

\* C11: store inserts position 87 for every record with year 1984, week 7
\* and title 'Remember The Nights', whatever position the record file
\* holds, the other four fields as read; every other record is inserted
\* with its five fields exactly as read from the record file.
C11_KnownCorrection ==
  pc = "inserted" =>
    /\ Len(values) = 5
    /\ \A k \in {1, 2, 4, 5} : values[k] = ValueOf(line[k])
    /\ IF IsCorrected(line)
         THEN PgParam(values[3]) = PgParam(Num(CorrectedPosition))
         ELSE values[3] = ValueOf(line[3])

\* The record of the correction has been inserted with position 87 from a
\* line that holds position 1.
C11_Witness ==
  /\ pc = "inserted"
  /\ IsCorrected(line)
  /\ line[3] = <<"jnum", 1>>
  /\ PgParam(values[3]) = <<"text", "87">>

\* The number of ISO weeks of a week-year: the week number of December 28th.
WeeksInWeekYear(y) == WeekNumber(Jan1(y + 1) - 4)

\* The ISO weeks of year y for which a chart is fetched.
ChartWeeks(y) ==
  {w \in (IF y = FirstYear THEN FirstChartWeek ELSE FirstWeek)..WeeksInWeekYear(y) :
     ~(y = GapYear /\ w = GapWeek)}

\* C9: when the week loop of a year y in 1958..2022 has ended, the dates
\* passed to ingest are one Saturday for each ISO week of week-year y from
\* week 1 (week 31 for 1958) to the last week of y, 1961-W52 left out, in
\* increasing order and 7 days apart, no week repeated.
C9_WeekSequence ==
  pc = "store" =>
    LET weeks == ChartWeeks(year)
        n == Len(passed)
    IN /\ n = Cardinality(weeks)
       /\ \A i \in 1..n :
            /\ ToISOWeekDate(passed[i])[3] = ChartWeekday
            /\ DateWeekYear(passed[i]) = year
       /\ {DateWeekNumber(passed[i]) : i \in 1..n} = weeks
       /\ \A i \in 1..(n - 1) :
            /\ passed[i + 1] = passed[i] + 7
            /\ DateWeekNumber(passed[i + 1]) = DateWeekNumber(passed[i]) + 1

\* ------------------------------------------------------------------------
\* Properties of the program, checked under Spec.
\* ------------------------------------------------------------------------

\* The rows store inserts for the lines a record file holds on disk.
RowsOfFile(y) == RowsOfWrites(jsonl[y].writes)

\* C1: a call of store in which parsing or inserting some line k fails
\* issues ROLLBACK and no COMMIT, raises, and leaves the database as it was,
\* the rows of lines 1..k-1 gone; the database changes only in a call of
\* store in which no line fails, by one COMMIT that adds the rows of all the
\* lines of the file at once.
C1_LoaderAtomicity ==
  [][/\ (pc = "store" /\ lastStore'.outcome = "raised") =>
          /\ DbRows(db') = DbRows(db)
          /\ lastStore'.rollbacks = 1
          /\ lastStore'.commits = 0
          /\ pc' = "failed"
          /\ failure' \in {"SyntaxError", "insert refused"}
     /\ db' # db =>
          /\ pc = "store"
          /\ lastStore'.outcome = "returned"
          /\ lastStore'.commits = 1
          /\ lastStore'.rollbacks = 0
          /\ DbRows(db') = DbRows(db) \o RowsOfFile(year)]_vars

\* store has raised at a line after rows were inserted, and the database
\* holds what it held before.
C1_Witness ==
  /\ lastStore.outcome = "raised"
  /\ lastStore.inserted >= 1
  /\ lastStore.rollbacks = 1
  /\ NumRows(db) = lastStore.before

\* The dates of year y for which main calls ingest.
IngestDates(y) == {d \in WindowDates(y) : ~IsGapWeek(d)}

\* The committed rows of year y.
DbRowsOf(y) == SelectSeq(DbRows(db), LAMBDA row : row[1] = Num(y))

\* C2, as claimed: the rows of a year in the database are none, or 100 rows
\* for every date of the year's week sequence.
C2_YearNoneOrComplete ==
  \A y \in RunYears :
    \/ DbRowsOf(y) = <<>>
    \/ \A d \in IngestDates(y) :
         Len(SelectSeq(DbRowsOf(y), LAMBDA row : row[2] = Num(DateWeekNumber(d)))) = ExpectedRows

\* main is where store has just returned or raised.
StoreJustEnded ==
  \/ pc = "failed" /\ lastStore.outcome = "raised"
  \/ pc \in {"year", "done"} /\ lastStore.outcome \in {"returned", "no file"} /\ year = lastStore.year + 1

\* C2, amended: what a call of store has added to the database is nothing
\* (it raised, or found no file) or one row for every line the record file
\* held when store read it; the file may lack weeks of the year.
C2_YearNoneOrWholeFile ==
  /\ lastStore.outcome \in {"raised", "no file"} => NumRows(db) = lastStore.before
  /\ lastStore.outcome = "returned" =>
       /\ NumRows(db) = lastStore.before + lastStore.lines
       /\ lastStore.lines <= NumLines(jsonl[lastStore.year].writes)
  /\ StoreJustEnded =>
       /\ Len(DbRows(db)) = NumRows(db)
       /\ lastStore.outcome = "returned" =>
            SubSeq(DbRows(db), lastStore.before + 1, lastStore.before + lastStore.lines)
              = SubSeq(RowsOfFile(lastStore.year), 1, lastStore.lines)

\* store has committed a year whose record file lacks a week.
C2_Witness ==
  /\ lastStore.outcome = "returned"
  /\ lastStore.lines = ExpectedRows
  /\ Cardinality(IngestDates(lastStore.year)) >= 2
  /\ Len(DbRowsOf(lastStore.year)) = ExpectedRows

\* C3: when main reaches a year whose record file exists, it calls neither
\* download nor parseHtml for that year, and the file is unchanged when
\* store is called on it.
C3_IdempotentResumption ==
  entered.existed =>
    /\ entered.fetches = 0
    /\ entered.parses = 0
    /\ passed = <<>>
    /\ jsonl[entered.year] = entered.snapshot

\* main is about to call store on a record file that an earlier run wrote.
C3_Witness ==
  /\ pc = "store"
  /\ entered.existed
  /\ entered.year = year
  /\ NumLines(entered.snapshot.writes) >= ExpectedRows
  /\ run = 2

\* C4, as claimed: when store raises for a year the run does not end; the
\* year's record file is deleted and the year is ingested again.
C4_StoreFailureRestartsYear ==
  lastStore.outcome = "raised" =>
    /\ pc # "failed"
    /\ failure = "none"
    /\ year = lastStore.year
    /\ pc = "week" => ~jsonl[year].exists

\* C5: a response whose status is not 200 or whose content type is not
\* exactly 'text/html; charset=UTF-8' makes download return null and leaves
\* no cache file for the date; the date's cache file is written only for a
\* response that passes both checks.
C5_FetcherFailure ==
  lastFetch.date # 0 =>
    /\ (lastFetch.statusCode # 200 \/ lastFetch.contentType # HtmlContentType) =>
         /\ lastFetch.returned = Null
         /\ ~html[lastFetch.date].exists
    /\ html[lastFetch.date].exists =>
         /\ lastFetch.statusCode = 200
         /\ lastFetch.contentType = HtmlContentType
         /\ lastFetch.returned = Undefined

\* download has returned null for a response of status 200 with another
\* content type, and the date has no cache file.
C5_Witness ==
  /\ lastFetch.date # 0
  /\ lastFetch.statusCode = 200
  /\ lastFetch.contentType # HtmlContentType
  /\ lastFetch.returned = Null
  /\ ~html[lastFetch.date].exists

\* C6, as claimed: after download returned null for a week, no error ends
\* the run.
C6_TransportFailureIsSoft ==
  lastFetch.returned = Null => (pc # "failed" /\ failure = "none")

\* C7: for a cache file whose number of rows is not 100, parseHtml yields
\* nothing and does not raise, ingest writes no line, and main goes on to
\* the next week.
C7_RowCountRejection ==
  (lastParse.found /\ lastParse.seen # ExpectedRows) =>
    /\ lastParse.yielded = 0
    /\ lastParse.wrote = 0
    /\ ~lastParse.raised
    /\ failure \notin {"ENOENT", "Unexpected HTML!"}
    /\ date >= PlusOneWeek(lastParse.date)

\* parseHtml has rejected a page of 101 rows and main is at the next week.
C7_Witness ==
  /\ lastParse.found
  /\ lastParse.seen = ExpectedRows + 1
  /\ lastParse.yielded = 0
  /\ pc = "week"
  /\ date = PlusOneWeek(lastParse.date)

\* The rows parseHtml found in its last call.
RowsSeen == SubSeq(RowsOf(html[lastParse.date].page), 1, lastParse.seen)

Range(seq) == {seq[k] : k \in DOMAIN seq}

\* A line of a record file whose artist or title is absent (null).
AbsentField(ln) == IsJson(ln) /\ (ln[4][1] = "jnull" \/ ln[5][1] = "jnull")

\* C8, as claimed: parseHtml raises at a row of a 100-row page that has no
\* title or no artist element, and no line with an absent title or artist is
\* written to a record file.
C8_MissingFieldRaises ==
  /\ (/\ lastParse.found
      /\ lastParse.seen = ExpectedRows
      /\ \E i \in 1..lastParse.seen : RowsSeen[i].h3 = NoElement \/ RowsSeen[i].span = NoElement)
       => lastParse.raised
  /\ \A i \in DOMAIN streams : \A ln \in Range(LinesOfWrite(streams[i].write)) : ~AbsentField(ln)
  /\ \A y \in RunYears : \A ln \in Range(Lines(jsonl[y].writes)) : ~AbsentField(ln)

\* The arrays ingest serialised in its last call.
TuplesWritten ==
  LET entries == ParseHtml(RowsSeen).entries
  IN [i \in 1..Len(entries) |-> TupleOf(lastParse.date, entries[i])]

\* C10, as claimed: every array ingest serialises into a line is, when the
\* line is parsed back, the same five values.
C10_RoundTrip ==
  lastParse.found =>
    \A i \in DOMAIN TuplesWritten :
      JsonParse(JsonStringify(TuplesWritten[i])) = TuplesWritten[i]

\* An argument is numeric: digits and nothing else.
IsNumeric(arg) == arg.digits # <<>> /\ arg.rest = ""

\* C12, as claimed: a run given fewer than two arguments, an argument that
\* is not numeric, a start year before 1958 or an end year after 2022 ends
\* without a fetch, a file write or a database operation; and ingest and
\* store are called only for years in 1958..2022.
C12_ArgumentValidation ==
  /\ (/\ run >= 1
      /\ \/ Len(argv) < 2
         \/ \E k \in 1..Len(argv) : ~IsNumeric(argv[k])
         \/ YearStart(argv)[2] < FirstYear
         \/ YearEnd(argv)[2] > LastYear)
       => /\ pc = "done"
          /\ entered = NoEntry
          /\ passed = <<>>
          /\ streams = <<>>
          /\ lastFetch = NoFetch
          /\ lastParse = NoParse
          /\ lastStore = NoStore
  /\ pc \in {"year", "week", "parse", "store"} => year \in FirstYear..LastYear

\* C13, as claimed: when download has returned after an accepted response
\* the whole body is in the cache file, and parseHtml never reads a cache
\* file whose write stream has chunks pending or is not closed.
C13_WritesComplete ==
  /\ (pc = "parse" /\ lastFetch.date = date /\ lastFetch.returned = Undefined) => html[date].flushed
  /\ lastParse.found => ~lastParse.pending

\* C14, as claimed: at most one write stream on a year's record file is
\* open at any time, and store reads the file only when every write stream
\* on it has flushed its lines and closed.
C14_SingleWriter ==
  /\ \A y \in RunYears : Cardinality(Pending(y)) <= 1
  /\ lastStore.pending = 0

\* The week-year, week number and position a line of a record file holds.
LineKey(ln) == <<ln[1][2], ln[2][2], ln[3][2]>>

\* Week a is before week b, or they are one week and position a is before b.
KeyBefore(a, b) ==
  \/ a[1] < b[1]
  \/ a[1] = b[1] /\ a[2] < b[2]
  \/ a[1] = b[1] /\ a[2] = b[2] /\ a[3] < b[3]

Ascending(lines) ==
  \A k \in 1..(Len(lines) - 1) : KeyBefore(LineKey(lines[k]), LineKey(lines[k + 1]))

\* The record file of year y holds only what ingest wrote.
WrittenByIngest(y) == \A k \in DOMAIN jsonl[y].writes : jsonl[y].writes[k].page # "hand"

\* C15, as claimed: the weeks of a year are passed to ingest in
\* chronological order, and the lines of the year's record file are on disk
\* in that order: ascending by week and, within a week, by position.
C15_RecordFileOrder ==
  /\ \A i \in 1..(Len(passed) - 1) : passed[i] < passed[i + 1]
  /\ \A y \in RunYears : WrittenByIngest(y) => Ascending(Lines(jsonl[y].writes))

\* C16, as claimed: a call of store that has made a connection has ended
\* it when it returns or raises, after COMMIT and after ROLLBACK alike.
C16_ConnectionClosed ==
  lastStore.outcome \in {"returned", "raised"} =>
    /\ lastStore.connects = 1
    /\ lastStore.ends = lastStore.connects

\* C17: download is called for a date only when the date has no cache
\* file; a cache file that exists stays, with the page it was written from;
\* a call of download whose response is accepted creates the cache file of
\* its date and no other, and a call whose response is not accepted creates
\* none.
C17_PageCacheMemo ==
  [][/\ entered'.fetches = entered.fetches + 1 =>
          /\ ~html[date].exists
          /\ lastFetch'.date = date
          /\ \A d \in AllDates \ {date} : html'[d] = html[d]
          /\ html'[date].exists <=> lastFetch'.returned = Undefined
     /\ \A d \in AllDates :
          html[d].exists => (html'[d].exists /\ html'[d].page = html[d].page)
     /\ \A d \in AllDates :
          (~html[d].exists /\ html'[d].exists) => (d = date /\ entered'.fetches = entered.fetches + 1)]_vars

\* ingest has found the cache file of its date and has not called download.
C17_Witness ==
  /\ pc = "parse"
  /\ html[date].exists
  /\ entered.fetches = 0
  /\ Len(passed) = 1

\* C18, as claimed: after store has raised for a year the run has ended
\* with that error, main has not gone on to a later year, and the year's
\* record file is there and holds what it held when store read it.
C18_HaltOnLoadFailure ==
  lastStore.outcome = "raised" =>
    /\ pc = "failed"
    /\ failure \in {"SyntaxError", "insert refused"}
    /\ year = lastStore.year
    /\ entered.year = lastStore.year
    /\ jsonl[lastStore.year].exists
    /\ NumLines(jsonl[lastStore.year].writes) = lastStore.lines

\* The part of it that is about main: the same with the last line left out.
HaltsOnLoadFailure ==
  lastStore.outcome = "raised" =>
    /\ pc = "failed"
    /\ failure \in {"SyntaxError", "insert refused"}
    /\ year = lastStore.year
    /\ entered.year = lastStore.year
    /\ jsonl[lastStore.year].exists

\* The record file of year y holds the 100 lines of the week of date d.
HoldsWeek(y, d) ==
  \E k \in DOMAIN jsonl[y].writes :
    /\ jsonl[y].writes[k].weekYear = DateWeekYear(d)
    /\ jsonl[y].writes[k].weekNumber = DateWeekNumber(d)
    /\ jsonl[y].writes[k].count = ExpectedRows

\* C19, as claimed: when main skips the ingestion of a year because its
\* record file exists, the file (one that ingest wrote, in this run or an
\* earlier one) holds the entries of every week of the year's week sequence.
C19_ExistenceImpliesCompleteness ==
  (entered.existed /\ WrittenByIngest(entered.year)) =>
    \A d \in IngestDates(entered.year) : HoldsWeek(entered.year, d)

\* C20, as claimed: a run for a year that an earlier run has committed
\* leaves the rows of the database as they were, so no chart entry (year,
\* week, position, artist, title) is in the database twice.
C20_LoadIdempotent ==
  Cardinality(Range(DbRows(db))) = Len(DbRows(db))

====
